---- MODULE Spec2Model ----
(***************************************************************************)
(* Model of src/codigo3.py: the Task entity, its ordering, the JSON codec  *)
(* and the TaskManager (task_dict, heap, completed, the backing file).     *)
(*                                                                         *)
(* Python strings are sequences of character codes, so that str.strip,     *)
(* the string comparison in Task.__lt__ and datetime.strptime are computed *)
(* the way Python computes them.  Task objects live in an object store     *)
(* (objs) and are referred to by identity from task_dict and from heap.    *)
(***************************************************************************)
EXTENDS Integers, Sequences, FiniteSets, TLC

VARIABLES
    task_dict,   \* TaskManager.task_dict: insertion-ordered <<[key, ref]>>
    heap,        \* TaskManager.heap: array of object references
    completed,   \* TaskManager.completed: set of names
    objs,        \* the Task objects reachable from task_dict or heap
    file,        \* the backing store (tareas.json)
    last,        \* the operation that ran last and how it ended
    ret,         \* what get_next_task returned: <<>> (None) or <<ref>>
    printed      \* the references show_pending_tasks printed, in order

vars == <<task_dict, heap, completed, objs, file, last, ret, printed>>

-----------------------------------------------------------------------------
(* Bounds *)

\* most Task objects alive at once (active tasks plus stale heap entries)
MaxObjs == 3

-----------------------------------------------------------------------------
(* Strings *)

Range(s) == {s[i] : i \in 1..Len(s)}

\* names: "A", "B"; blank names: "" and " "
NameA == <<65>>
NameB == <<66>>
NameEmpty == <<>>
NameSpace == <<32>>

\* str.isspace for the ASCII range
IsSpace(c) == c \in {9, 10, 11, 12, 13, 28, 29, 30, 31, 32}

RECURSIVE LStrip(_)
LStrip(s) ==
    IF s # <<>> /\ IsSpace(Head(s)) THEN LStrip(Tail(s)) ELSE s

RECURSIVE RStrip(_)
RStrip(s) ==
    IF s # <<>> /\ IsSpace(s[Len(s)]) THEN RStrip(SubSeq(s, 1, Len(s) - 1)) ELSE s

\* str.strip()
Strip(s) == RStrip(LStrip(s))

\* Python's str < str: lexicographic on code points, a proper prefix is smaller
RECURSIVE StrLess(_, _)
StrLess(a, b) ==
    IF b = <<>> THEN FALSE
    ELSE IF a = <<>> THEN TRUE
    ELSE IF Head(a) # Head(b) THEN Head(a) < Head(b)
    ELSE StrLess(Tail(a), Tail(b))

-----------------------------------------------------------------------------
(* Dates: datetime.strptime(due_date, "%Y-%m-%d") *)

Dash == 45
IsDigit(c) == c \in 48..57

\* int() of a text of one, two or four digits
NumVal(t) ==
    IF Len(t) = 1 THEN t[1] - 48
    ELSE IF Len(t) = 2 THEN 10 * (t[1] - 48) + (t[2] - 48)
    ELSE 1000 * (t[1] - 48) + 100 * (t[2] - 48) + 10 * (t[3] - 48) + (t[4] - 48)

\* the three fields "%Y-%m-%d" splits the text into, <<>> when it cannot
DateFields(s) ==
    IF Len(s) >= 8 /\ s[5] = Dash /\ s[7] = Dash
    THEN <<SubSeq(s, 1, 4), SubSeq(s, 6, 6), SubSeq(s, 8, Len(s))>>
    ELSE IF Len(s) >= 9 /\ s[5] = Dash /\ s[8] = Dash
    THEN <<SubSeq(s, 1, 4), SubSeq(s, 6, 7), SubSeq(s, 9, Len(s))>>
    ELSE <<>>

\* %Y: \d\d\d\d
MatchY(t) == Len(t) = 4 /\ \A i \in 1..4 : IsDigit(t[i])

\* %m: 1[0-2]|0[1-9]|[1-9]
MatchM(t) ==
    \/ Len(t) = 2 /\ t[1] = 49 /\ t[2] \in 48..50
    \/ Len(t) = 2 /\ t[1] = 48 /\ t[2] \in 49..57
    \/ Len(t) = 1 /\ t[1] \in 49..57

\* %d: 3[0-1]|[1-2]\d|0[1-9]|[1-9]| [1-9]
MatchD(t) ==
    \/ Len(t) = 2 /\ t[1] = 51 /\ t[2] \in 48..49
    \/ Len(t) = 2 /\ t[1] \in 49..50 /\ IsDigit(t[2])
    \/ Len(t) = 2 /\ t[1] = 48 /\ t[2] \in 49..57
    \/ Len(t) = 1 /\ t[1] \in 49..57
    \/ Len(t) = 2 /\ t[1] = 32 /\ t[2] \in 49..57

IsLeap(y) == (y % 4 = 0 /\ y % 100 # 0) \/ y % 400 = 0

\* as DaysInMonth, with every month taken to have 31 days
DaysInMonth_flat(y, m) == 31

DaysInMonth(y, m) ==
    IF m = 2 THEN (IF IsLeap(y) THEN 29 ELSE 28)
    ELSE IF m \in {4, 6, 9, 11} THEN 30 ELSE 31

\* datetime(y, m, d): <<>> where it raises ValueError
Date(y, m, d) == IF y >= 1 /\ d <= DaysInMonth(y, m) THEN <<y, m, d>> ELSE <<>>

\* the date of the fields f the pattern matched
DateOf(f) ==
    IF f = <<>> THEN <<>>
    ELSE IF ~(MatchY(f[1]) /\ MatchM(f[2]) /\ MatchD(f[3])) THEN <<>>
    ELSE Date(NumVal(f[1]), NumVal(f[2]), NumVal(IF f[3][1] = 32 THEN Tail(f[3]) ELSE f[3]))

\* the (year, month, day) strptime builds; <<>> where it raises ValueError
Strptime(s) == DateOf(DateFields(s))

\* "2025-10-01"
DateOct == <<50, 48, 50, 53, 45, 49, 48, 45, 48, 49>>
\* "2025-9-01": accepted by strptime, not zero-padded
DateSep == <<50, 48, 50, 53, 45, 57, 45, 48, 49>>
\* "2025-02-30": well-formed, no such day
DateFeb30 == <<50, 48, 50, 53, 45, 48, 50, 45, 51, 48>>
\* "2025/10/01": wrong separators
DateSlash == <<50, 48, 50, 53, 47, 49, 48, 47, 48, 49>>
\* "2100-01-01": the default of Task.from_dict
DateDefault == <<50, 49, 48, 48, 45, 48, 49, 45, 48, 49>>

-----------------------------------------------------------------------------
(* Task *)

\* list(x) of a set: its elements once each, in an order Python does not fix
list(S) ==
    {l \in [1..Cardinality(S) -> S] : \A i, j \in DOMAIN l : i # j => l[i] # l[j]}

\* Task.__init__: dependencies is a list (or None, here <<>>)
Task(name, priority, due_date, dependencies) ==
    [name |-> name, priority |-> priority, due_date |-> due_date,
     dependencies |-> IF dependencies # <<>> THEN Range(dependencies) ELSE {}]

\* Task.__lt__
Lt(self, other) ==
    IF self.priority = other.priority
    THEN StrLess(self.due_date, other.due_date)
    ELSE self.priority < other.priority

\* as to_dict, with the dependencies left out of the record
to_dict_bare(self) ==
    {[name |-> self.name, priority |-> self.priority, due_date |-> self.due_date,
      dependencies |-> <<>>]}

\* Task.to_dict: one record per order list(self.dependencies) can come out in
to_dict(self) ==
    {[name |-> self.name, priority |-> self.priority, due_date |-> self.due_date,
      dependencies |-> l] : l \in list(self.dependencies)}

\* as from_dict, with the date of the first release as the default due date
from_dict_plain(data) ==
    LET due_date == IF "due_date" \in DOMAIN data THEN data.due_date ELSE DateOct
        dependencies == IF "dependencies" \in DOMAIN data THEN data.dependencies ELSE <<>>
    IN  Task(data.name, data.priority, due_date, dependencies)

\* Task.from_dict
from_dict(data) ==
    LET due_date == IF "due_date" \in DOMAIN data THEN data.due_date ELSE DateDefault
        dependencies == IF "dependencies" \in DOMAIN data THEN data.dependencies ELSE <<>>
    IN  Task(data.name, data.priority, due_date, dependencies)

-----------------------------------------------------------------------------
(* heapq on an array of references; o is the object store *)

RECURSIVE siftdown(_, _, _, _, _)
siftdown(h, startpos, pos, newitem, o) ==
    IF pos > startpos /\ Lt(o[newitem], o[h[pos \div 2]])
    THEN siftdown([h EXCEPT ![pos] = h[pos \div 2]], startpos, pos \div 2, newitem, o)
    ELSE [h EXCEPT ![pos] = newitem]

RECURSIVE siftup_loop(_, _, _)
siftup_loop(h, pos, o) ==
    LET childpos == 2 * pos
        rightpos == childpos + 1
        c == IF rightpos <= Len(h) /\ ~Lt(o[h[childpos]], o[h[rightpos]])
             THEN rightpos ELSE childpos
    IN  IF childpos <= Len(h)
        THEN siftup_loop([h EXCEPT ![pos] = h[c]], c, o)
        ELSE <<h, pos>>

siftup(h, pos, o) ==
    LET newitem == h[pos]
        r == siftup_loop(h, pos, o)
    IN  siftdown(r[1], pos, r[2], newitem, o)

\* as heappush, with list.append in its place
heappush_append(h, item, o) == Append(h, item)

\* heapq.heappush
heappush(h, item, o) == siftdown(Append(h, item), 1, Len(h) + 1, item, o)

\* as heappop, without the move of the last element to the root
heappop_tail(h, o) ==
    LET rest == SubSeq(h, 1, Len(h) - 1)
    IN  IF rest # <<>> THEN siftup(rest, 1, o) ELSE rest

\* heapq.heappop: the array it leaves
heappop(h, o) ==
    LET lastelt == h[Len(h)]
        rest == SubSeq(h, 1, Len(h) - 1)
    IN  IF rest # <<>> THEN siftup([rest EXCEPT ![1] = lastelt], 1, o) ELSE rest

\* sorted(pending): stable, by __lt__
RECURSIVE insort(_, _, _)
insort(s, x, o) ==
    IF s = <<>> THEN <<x>>
    ELSE IF Lt(o[x], o[Head(s)]) THEN <<x>> \o s
    ELSE <<Head(s)>> \o insort(Tail(s), x, o)

RECURSIVE sorted(_, _)
sorted(s, o) ==
    IF s = <<>> THEN <<>>
    ELSE insort(sorted(SubSeq(s, 1, Len(s) - 1), o), s[Len(s)], o)

-----------------------------------------------------------------------------
(* dict *)

Keys(td) == {td[i].key : i \in 1..Len(td)}
Refs(td) == {td[i].ref : i \in 1..Len(td)}
Get(td, k) == (CHOOSE e \in Range(td) : e.key = k).ref
Del(td, k) == SelectSeq(td, LAMBDA e : e.key # k)

\* the identity of a newly allocated object
NewRef(o) == CHOOSE r \in 1..(Cardinality(DOMAIN o) + 1) : r \notin DOMAIN o

\* Identities carry no information beyond equality: the objects still referenced
\* are renumbered in the order task_dict and then heap reach them, the others
\* are garbage.
Renumber(td, h, comp, o) ==
    LET stale == SelectSeq(h, LAMBDA r : r \notin Refs(td))
        order == [i \in 1..Len(td) |-> td[i].ref] \o stale
        new(r) == CHOOSE i \in 1..Len(order) : order[i] = r
    IN  [task_dict |-> [i \in 1..Len(td) |-> [key |-> td[i].key, ref |-> new(td[i].ref)]],
         heap |-> [i \in 1..Len(h) |-> new(h[i])],
         completed |-> comp,
         objs |-> [i \in 1..Len(order) |-> o[order[i]]]]

-----------------------------------------------------------------------------
(* The backing file: absent, not JSON, or a JSON document *)

NoFile == [kind |-> "missing", data |-> [tasks |-> <<>>, completed |-> <<>>]]
BadFile == [kind |-> "corrupt", data |-> [tasks |-> <<>>, completed |-> <<>>]]
JsonFile(data) == [kind |-> "json", data |-> data]

\* documents of an older version: records without due_date or dependencies
LegacyFiles ==
    {JsonFile([tasks |-> <<[key |-> NameA, rec |-> [name |-> NameA, priority |-> 1]]>>,
               completed |-> <<>>]),
     JsonFile([tasks |-> <<[key |-> NameA,
                            rec |-> [name |-> NameA, priority |-> 2,
                                     dependencies |-> <<NameB>>]],
                           [key |-> NameB,
                            rec |-> [name |-> NameB, priority |-> 1,
                                     due_date |-> DateOct]]>>])}

\* the 'tasks' object save_tasks writes, per order of each dependencies list
RECURSIVE tasks_json(_, _)
tasks_json(td, o) ==
    IF td = <<>> THEN {<<>>}
    ELSE {<<[key |-> Head(td).key, rec |-> d]>> \o rest :
             d \in to_dict(o[Head(td).ref]), rest \in tasks_json(Tail(td), o)}

\* TaskManager.save_tasks: the documents json.dump can leave in the file
save_tasks(td, o, comp) ==
    {JsonFile([tasks |-> t, completed |-> c]) : t \in tasks_json(td, o), c \in list(comp)}

-----------------------------------------------------------------------------
(* TaskManager *)

\* the fields of a TaskManager as one value
Manager(td, h, comp, o) == Renumber(td, h, comp, o)

\* as rebuild_from, pushing every task whatever its dependencies
RECURSIVE rebuild_from_all(_, _, _, _)
rebuild_from_all(i, td, o, h) ==
    IF i > Len(td) THEN h
    ELSE rebuild_from_all(i + 1, td, o, heappush(h, td[i].ref, o))

\* TaskManager.rebuild_heap, from the i-th entry of task_dict on
RECURSIVE rebuild_from(_, _, _, _)
rebuild_from(i, td, o, h) ==
    IF i > Len(td) THEN h
    ELSE rebuild_from(i + 1, td, o,
             IF o[td[i].ref].dependencies = {} THEN heappush(h, td[i].ref, o) ELSE h)

\* TaskManager.rebuild_heap
rebuild_heap(td, o) == rebuild_from(1, td, o, <<>>)

\* as load_tasks, without the read of the 'completed' list
load_tasks_tasks_only(f, m) ==
    IF f.kind = "missing" THEN m
    ELSE IF f.kind = "corrupt" THEN m
    ELSE LET tasks == IF "tasks" \in DOMAIN f.data THEN f.data.tasks ELSE <<>>
             td == [i \in 1..Len(tasks) |-> [key |-> tasks[i].key, ref |-> i]]
             o == [i \in 1..Len(tasks) |-> from_dict(tasks[i].rec)]
         IN  Manager(td, rebuild_heap(td, o), m.completed, o)

\* TaskManager.load_tasks on the manager m
load_tasks(f, m) ==
    IF f.kind = "missing" THEN m
    ELSE IF f.kind = "corrupt" THEN m
    ELSE LET tasks == IF "tasks" \in DOMAIN f.data THEN f.data.tasks ELSE <<>>
             done == IF "completed" \in DOMAIN f.data THEN f.data.completed ELSE <<>>
             td == [i \in 1..Len(tasks) |-> [key |-> tasks[i].key, ref |-> i]]
             o == [i \in 1..Len(tasks) |-> from_dict(tasks[i].rec)]
         IN  Manager(td, rebuild_heap(td, o), Range(done), o)

\* TaskManager.__init__: the fields before load_tasks runs
NewManager == Manager(<<>>, <<>>, {}, <<>>)

\* as release_from, without the push of a task whose last dependency went
RECURSIVE release_from_quiet(_, _, _, _, _)
release_from_quiet(i, td, o, h, name) ==
    IF i > Len(td) THEN [objs |-> o, heap |-> h]
    ELSE LET r == td[i].ref IN
         IF name \in o[r].dependencies
         THEN release_from_quiet(i + 1, td, [o EXCEPT ![r].dependencies = @ \ {name}],
                                 h, name)
         ELSE release_from_quiet(i + 1, td, o, h, name)

\* as release_from, pushing every task the name was removed from
RECURSIVE release_from_eager(_, _, _, _, _)
release_from_eager(i, td, o, h, name) ==
    IF i > Len(td) THEN [objs |-> o, heap |-> h]
    ELSE LET r == td[i].ref IN
         IF name \in o[r].dependencies
         THEN LET o1 == [o EXCEPT ![r].dependencies = @ \ {name}] IN
              release_from_eager(i + 1, td, o1, heappush(h, r, o1), name)
         ELSE release_from_eager(i + 1, td, o, h, name)

\* the loop of complete_task over task_dict.values(), from the i-th entry on
RECURSIVE release_from(_, _, _, _, _)
release_from(i, td, o, h, name) ==
    IF i > Len(td) THEN [objs |-> o, heap |-> h]
    ELSE LET r == td[i].ref IN
         IF name \in o[r].dependencies
         THEN LET o1 == [o EXCEPT ![r].dependencies = @ \ {name}] IN
              release_from(i + 1, td, o1,
                  IF o1[r].dependencies = {} THEN heappush(h, r, o1) ELSE h, name)
         ELSE release_from(i + 1, td, o, h, name)

\* as purge, with an if in place of the while
purge_one(h, td, o) ==
    IF h # <<>> /\ o[h[1]].name \notin Keys(td) THEN heappop(h, o) ELSE h

\* the lazy purge of get_next_task: the heap once its stale heads are popped
RECURSIVE purge(_, _, _)
purge(h, td, o) ==
    IF h # <<>> /\ o[h[1]].name \notin Keys(td) THEN purge(heappop(h, o), td, o) ELSE h

\* the list comprehension of show_pending_tasks
pending(h, td, o) == SelectSeq(h, LAMBDA r : o[r].name \in Keys(td))

\* isinstance(priority, int)
isinstance_int(priority) == priority.type = "int"

-----------------------------------------------------------------------------
(* Inputs *)

Names == {NameA, NameB}
BlankNames == {NameEmpty, NameSpace}
IntPriorities == {[type |-> "int", val |-> n] : n \in 1..2}
OtherPriorities == {[type |-> "float", val |-> 1]}
GoodDates == {DateOct, DateSep}
BadDates == {DateFeb30, DateSlash}
DependencyInputs == {<<>>, <<NameA>>, <<NameB>>, <<NameA, NameB>>}

IntPriority(n) == [type |-> "int", val |-> n]

\* the well-formed calls of add_task: two priorities, and two dates for one of them
GoodInputs ==
    {<<name, pd[1], pd[2], dependencies>> :
        name \in Names,
        pd \in {<<IntPriority(1), DateOct>>, <<IntPriority(1), DateSep>>, <<IntPriority(2), DateOct>>},
        dependencies \in DependencyInputs}

\* the calls of add_task: the well-formed ones, and each kind of ill-formed one
AddInputs ==
    GoodInputs
    \cup (BlankNames \X {IntPriority(1)} \X {DateOct} \X {<<>>})
    \cup ({NameA} \X OtherPriorities \X {DateOct} \X {<<>>})
    \cup ({NameA} \X {IntPriority(1)} \X BadDates \X {<<>>})

-----------------------------------------------------------------------------
(* Operations *)

\* the manager's fields become those of m
Install(m) ==
    /\ task_dict' = m.task_dict
    /\ heap' = m.heap
    /\ completed' = m.completed
    /\ objs' = m.objs

\* an operation that printed its complaint and returned without touching anything
Rejected(msg) ==
    /\ last' = msg
    /\ ret' = <<>>
    /\ printed' = <<>>
    /\ UNCHANGED <<task_dict, heap, completed, objs, file>>

\* as add_task, without the push of a task that has no dependencies
add_task_unqueued(name, priority, due_date, dependencies) ==
    IF Strip(name) = <<>> THEN Rejected("add_task: rejected")
    ELSE IF ~isinstance_int(priority) THEN Rejected("add_task: rejected")
    ELSE IF Strptime(due_date) = <<>> THEN Rejected("add_task: rejected")
    ELSE IF name \in Keys(task_dict) THEN Rejected("add_task: rejected")
    ELSE /\ Cardinality(DOMAIN objs) < MaxObjs
         /\ last' = "add_task: added"
         /\ ret' = <<>>
         /\ printed' = <<>>
         /\ LET r == NewRef(objs)
                task == Task(name, priority.val, due_date, dependencies)
                o1 == [x \in DOMAIN objs \cup {r} |-> IF x = r THEN task ELSE objs[x]]
                td1 == Append(task_dict, [key |-> name, ref |-> r])
            IN  /\ Install(Manager(td1, heap, completed, o1))
                /\ file' \in save_tasks(td1, o1, completed)

add_task(name, priority, due_date, dependencies) ==
    IF Strip(name) = <<>> THEN Rejected("add_task: rejected")
    ELSE IF ~isinstance_int(priority) THEN Rejected("add_task: rejected")
    ELSE IF Strptime(due_date) = <<>> THEN Rejected("add_task: rejected")
    ELSE IF name \in Keys(task_dict) THEN Rejected("add_task: rejected")
    ELSE /\ Cardinality(DOMAIN objs) < MaxObjs
         /\ last' = "add_task: added"
         /\ ret' = <<>>
         /\ printed' = <<>>
         /\ LET r == NewRef(objs)
                task == Task(name, priority.val, due_date, dependencies)
                o1 == [x \in DOMAIN objs \cup {r} |-> IF x = r THEN task ELSE objs[x]]
                td1 == Append(task_dict, [key |-> name, ref |-> r])
                h1 == IF task.dependencies = {} THEN heappush(heap, r, o1) ELSE heap
            IN  /\ Install(Manager(td1, h1, completed, o1))
                /\ file' \in save_tasks(td1, o1, completed)

\* as complete_task, refusing a task that still waits on a dependency
complete_task_ready_only(name) ==
    IF name \notin Keys(task_dict) \/ objs[Get(task_dict, name)].dependencies # {}
    THEN Rejected("complete_task: not found")
    ELSE LET td1 == Del(task_dict, name)
             comp1 == completed \cup {name}
             rel == release_from(1, td1, objs, heap, name)
         IN  /\ last' = IF rel.heap # heap THEN "complete_task: completed, released"
                        ELSE "complete_task: completed"
             /\ ret' = <<>>
             /\ printed' = <<>>
             /\ Install(Manager(td1, rel.heap, comp1, rel.objs))
             /\ file' \in save_tasks(td1, rel.objs, comp1)

complete_task(name) ==
    IF name \notin Keys(task_dict) THEN Rejected("complete_task: not found")
    ELSE LET td1 == Del(task_dict, name)
             comp1 == completed \cup {name}
             rel == release_from(1, td1, objs, heap, name)
         IN  /\ last' = IF rel.heap # heap THEN "complete_task: completed, released"
                        ELSE "complete_task: completed"
             /\ ret' = <<>>
             /\ printed' = <<>>
             /\ Install(Manager(td1, rel.heap, comp1, rel.objs))
             /\ file' \in save_tasks(td1, rel.objs, comp1)

show_pending_tasks ==
    /\ last' = "show_pending_tasks"
    /\ printed' = sorted(pending(heap, task_dict, objs), objs)
    /\ ret' = <<>>
    /\ UNCHANGED <<task_dict, heap, completed, objs, file>>

\* as get_next_task, taking the task off the heap instead of peeking at it
get_next_task_popping ==
    LET h1 == purge(heap, task_dict, objs)
        h2 == IF h1 = <<>> THEN h1 ELSE heappop(h1, objs)
    IN
    /\ last' = IF h1 = <<>> THEN "get_next_task: none" ELSE "get_next_task: task"
    /\ Install(Manager(task_dict, h2, completed, objs))
    /\ ret' = IF h1 = <<>> THEN <<>> ELSE <<h1[1]>>
    /\ printed' = <<>>
    /\ UNCHANGED file

get_next_task ==
    LET h1 == purge(heap, task_dict, objs) IN
    /\ last' = IF h1 = <<>> THEN "get_next_task: none" ELSE "get_next_task: task"
    /\ Install(Manager(task_dict, h1, completed, objs))
    /\ ret' = IF h1 = <<>> THEN <<>> ELSE <<heap'[1]>>
    /\ printed' = <<>>
    /\ UNCHANGED file

\* the process ends and a new TaskManager is constructed on the same file
Restart ==
    /\ last' = "restart"
    /\ ret' = <<>>
    /\ printed' = <<>>
    /\ UNCHANGED file
    /\ Install(load_tasks(file, NewManager))

\* as RestartOn, with load_tasks run on the fields of the manager before
RestartOn_reload(f) ==
    /\ last' = "restart"
    /\ ret' = <<>>
    /\ printed' = <<>>
    /\ file' = f
    /\ Install(load_tasks(f, Manager(task_dict, heap, completed, objs)))

\* the process ends, the file is deleted or left half-written, and a new
\* TaskManager is constructed on it
RestartOn(f) ==
    /\ last' = "restart"
    /\ ret' = <<>>
    /\ printed' = <<>>
    /\ file' = f
    /\ Install(load_tasks(f, NewManager))

RestartDeleted == RestartOn(NoFile)

RestartCorrupt == RestartOn(BadFile)

Init ==
    /\ file \in {NoFile, BadFile} \cup LegacyFiles
    /\ LET m == load_tasks(file, NewManager) IN
        /\ task_dict = m.task_dict
        /\ heap = m.heap
        /\ completed = m.completed
        /\ objs = m.objs
    /\ last = "init"
    /\ ret = <<>>
    /\ printed = <<>>

AddTask ==
    \E i \in AddInputs : add_task(i[1], i[2], i[3], i[4])

CompleteTask == \E name \in Names : complete_task(name)

Next ==
    \/ AddTask
    \/ CompleteTask
    \/ show_pending_tasks
    \/ get_next_task
    \/ Restart

Spec == Init /\ [][Next]_vars

\* the same program with a file that can be lost or damaged between runs
SpecEnv == Init /\ [][Next \/ RestartDeleted \/ RestartCorrupt]_vars

-----------------------------------------------------------------------------
(* Views of the state used by the properties *)

\* the active task objects, and those of them that are ready
ActiveRefs == Refs(task_dict)
ReadyRefs == {r \in ActiveRefs : objs[r].dependencies = {}}

\* a dict as the set of its (key, value) pairs: dict equality ignores order
Items(td, o) == {<<td[i].key, o[td[i].ref]>> : i \in 1..Len(td)}

\* how many entries of the heap h are the object value v
Count(h, o, v) == Cardinality({i \in 1..Len(h) : o[h[i]] = v})

\* the outcomes of get_next_task
GetNextOutcomes == {"get_next_task: none", "get_next_task: task"}

\* (year, month, day) a before b
CalendarLess(a, b) ==
    \/ a[1] < b[1]
    \/ a[1] = b[1] /\ a[2] < b[2]
    \/ a[1] = b[1] /\ a[2] = b[2] /\ a[3] < b[3]

-----------------------------------------------------------------------------
(* C1 - C10 *)

\* C1 (dependency gating): while the active task registered under a name has
\* unmet dependencies, get_next_task returns no task of that name and
\* show_pending_tasks lists none.
C1_DependencyGating ==
    LET gated(r) == \A e \in Range(task_dict) :
                        e.key = objs[r].name => objs[e.ref].dependencies = {}
    IN  /\ last = "get_next_task: task" => gated(ret[1])
        /\ last = "show_pending_tasks" => \A i \in 1..Len(printed) : gated(printed[i])

\* C2 (ordering): the task get_next_task returns is an active task with no
\* dependencies, and no active task without dependencies has a strictly smaller
\* priority value.
C2_Ordering ==
    last = "get_next_task: task" =>
        /\ ret[1] \in ReadyRefs
        /\ \A r \in ReadyRefs : ~(objs[r].priority < objs[ret[1]].priority)

\* C3 (tie-break): get_next_task does not return an active ready task b while
\* an active ready task a of the same priority has the earlier calendar due date
\* (both dates accepted by add_task's validation).
C3_TieBreak ==
    (last = "get_next_task: task" /\ ret[1] \in ReadyRefs) =>
        \A a \in ReadyRefs :
            (/\ objs[a].priority = objs[ret[1]].priority
             /\ Strptime(objs[a].due_date) # <<>>
             /\ Strptime(objs[ret[1]].due_date) # <<>>)
            => ~CalendarLess(Strptime(objs[a].due_date), Strptime(objs[ret[1]].due_date))


\* C4 (release propagation): right after a successful complete_task(X) no
\* active task has X among its dependencies, and every active task whose
\* dependency set was {X} is in the heap, is listed by show_pending_tasks and
\* survives the purge of get_next_task.
C4_ReleasePropagation ==
    [][\A name \in Names :
        (name \in Keys(task_dict) /\ complete_task(name)) =>
            /\ \A r \in Refs(task_dict') : name \notin objs'[r].dependencies
            /\ \A e \in Range(task_dict) :
                (e.key # name /\ objs[e.ref].dependencies = {name}) =>
                    LET r == Get(task_dict', e.key) IN
                    /\ r \in Range(heap')
                    /\ r \in Range(sorted(pending(heap', task_dict', objs'), objs'))
                    /\ r \in Range(purge(heap', task_dict', objs'))]_vars

\* a completion has just released an active task into the heap
C4_Witness ==
    /\ last = "complete_task: completed, released"
    /\ \E r \in ReadyRefs : r \in Range(heap)

\* C5 (active and completed are disjoint): no name is a key of task_dict and a
\* member of completed at the same time.
C5_Disjoint == Keys(task_dict) \cap completed = {}

\* C6 (failed operations are no-ops): add_task with a blank name, a non-integer
\* priority, an invalid date or a name already active, and complete_task of a
\* name that is not active, leave the manager's fields and the file as they were.
C6_FailedNoOp ==
    [][\/ UNCHANGED <<task_dict, heap, completed, objs, file>>
       \/ /\ \A i \in AddInputs :
                (\/ i[1] \in BlankNames
                 \/ i[2] \notin IntPriorities
                 \/ i[3] \in BadDates
                 \/ i[1] \in Keys(task_dict))
                => ~add_task(i[1], i[2], i[3], i[4])
          /\ \A name \in Names :
                name \notin Keys(task_dict) => ~complete_task(name)]_vars

\* an add_task was rejected by a manager that holds tasks and a saved file
C6_Witness ==
    /\ last = "add_task: rejected"
    /\ task_dict # <<>>
    /\ completed # {}
    /\ file.kind = "json"

\* C7 (round trip): at every operation boundary the file loads to the tasks
\* and completed names in memory, and so does every document save_tasks can
\* write for the state in memory.
C7_RoundTrip ==
    LET same(m) == /\ Items(m.task_dict, m.objs) = Items(task_dict, objs)
                   /\ m.completed = completed
    IN  /\ same(load_tasks(file, NewManager))
        /\ \A f \in save_tasks(task_dict, objs, completed) : same(load_tasks(f, NewManager))

\* the file holds a task with two dependencies and a completed name
C7_Witness ==
    /\ file.kind = "json"
    /\ last \in {"add_task: added", "complete_task: completed"}
    /\ completed # {}
    /\ \E r \in ActiveRefs : Cardinality(objs[r].dependencies) = 2

\* C8 (missing or corrupt store): a TaskManager constructed on a file that is
\* absent or not JSON has an empty task_dict, completed and heap; an add_task
\* with valid arguments then stores the task and writes a JSON file.
C8_LoadMissingOrCorrupt ==
    [][/\ (file'.kind # "json" /\ (Restart \/ RestartDeleted \/ RestartCorrupt))
            => (task_dict' = <<>> /\ completed' = {} /\ heap' = <<>>)
       /\ \A i \in GoodInputs :
            (file.kind # "json" /\ add_task(i[1], i[2], i[3], i[4]))
            => (Keys(task_dict') = {i[1]} /\ file'.kind = "json")]_vars

\* a manager has started empty on an absent or damaged file
C8_Witness ==
    /\ last = "restart"
    /\ file.kind # "json"
    /\ task_dict = <<>>

\* C9 (heap rebuild on load): right after a JSON file is loaded the heap holds
\* exactly the loaded tasks without dependencies, each once, and nothing else.
C9_HeapRebuild ==
    [][(Restart /\ file.kind = "json") =>
        /\ Range(heap') = {r \in Refs(task_dict') : objs'[r].dependencies = {}}
        /\ Len(heap') = Cardinality(Range(heap'))
        /\ \A i \in 1..Len(heap') : objs'[heap'[i]].name \in Keys(task_dict')]_vars

\* a restart has loaded a ready task, a waiting task and a completed name
C9_Witness ==
    /\ last = "restart"
    /\ file.kind = "json"
    /\ completed # {}
    /\ heap # <<>>
    /\ ActiveRefs \ ReadyRefs # {}

\* C10 (complete_task): it fails exactly when the name is not a key of
\* task_dict; otherwise, ready or not, the name leaves task_dict and joins
\* completed.
C10_CompleteTask ==
    [][\A name \in Names :
        complete_task(name) =>
            IF name \in Keys(task_dict)
            THEN /\ name \notin Keys(task_dict')
                 /\ name \in completed'
                 /\ last' # "complete_task: not found"
            ELSE /\ last' = "complete_task: not found"
                 /\ UNCHANGED <<task_dict, completed>>]_vars

\* a task that was never on the heap, so one still waiting on a dependency,
\* has just been completed
C10_Witness ==
    /\ last = "complete_task: completed"
    /\ heap = <<>>
    /\ completed # {}

-----------------------------------------------------------------------------
(* C11 - C20 *)

\* C11 (availability of an answer), as claimed: get_next_task returns None only
\* when no task is active.
C11_Availability ==
    last = "get_next_task: none" => task_dict = <<>>

\* C11, amended: whenever some active task has an empty dependency set,
\* get_next_task returns a task; it returns None only when no active task has
\* an empty dependency set.
C11_AvailabilityReady ==
    /\ last = "get_next_task: none" => ReadyRefs = {}
    /\ ReadyRefs # {} => purge(heap, task_dict, objs) # <<>>

\* get_next_task has answered with a task while another active task waits
C11_Witness ==
    /\ last = "get_next_task: task"
    /\ ReadyRefs # {}
    /\ ActiveRefs \ ReadyRefs # {}

\* C12 (idempotent lazy purge): a get_next_task that follows a get_next_task
\* returns what the first returned and leaves the heap and its objects as they
\* were.
C12_IdempotentPurge ==
    [][(last \in GetNextOutcomes /\ last' \in GetNextOutcomes /\ get_next_task) =>
        (ret' = ret /\ heap' = heap /\ objs' = objs)]_vars

\* get_next_task has returned a task and left a stale entry below the head
C12_Witness ==
    /\ last = "get_next_task: task"
    /\ \E i \in 2..Len(heap) : objs[heap[i]].name \notin Keys(task_dict)

\* C13 (legacy load): right after a JSON file is loaded, a record without
\* due_date has become a task due "2100-01-01", a record without dependencies
\* a task with no dependencies that is on the heap, and every field a record
\* has is in the task as stored.
C13_LegacyLoad ==
    (last \in {"init", "restart"} /\ file.kind = "json") =>
        \A e \in Range(file.data.tasks) :
            LET r == Get(task_dict, e.key)
                t == objs[r]
            IN  /\ t.name = e.rec.name
                /\ t.priority = e.rec.priority
                /\ IF "due_date" \in DOMAIN e.rec
                   THEN t.due_date = e.rec.due_date
                   ELSE t.due_date = <<50, 49, 48, 48, 45, 48, 49, 45, 48, 49>>
                /\ IF "dependencies" \in DOMAIN e.rec
                   THEN t.dependencies = Range(e.rec.dependencies)
                   ELSE t.dependencies = {} /\ r \in Range(heap)

\* a restart has loaded a record that has neither due_date nor dependencies
C13_Witness ==
    /\ last = "restart"
    /\ file.kind = "json"
    /\ \E e \in Range(file.data.tasks) :
        "due_date" \notin DOMAIN e.rec /\ "dependencies" \notin DOMAIN e.rec

\* C14 (ready-queue coverage): every active task whose dependency set is empty
\* is an entry of the heap, in every state, so also after the purge of
\* get_next_task.
C14_ReadyCoverage == ReadyRefs \subseteq Range(heap)

\* get_next_task has left a heap of live ready tasks only, after a completion
C14_Witness ==
    /\ last = "get_next_task: task"
    /\ completed # {}
    /\ Keys(task_dict) \cap completed = {}
    /\ Len(heap) = Cardinality(ReadyRefs)

\* C15 (only ready tasks are enqueued): every entry of the heap is an object
\* whose own dependency set is empty, and an active task that waits on a
\* dependency comes to be on the heap only in the complete_task step that
\* removes its one remaining dependency.
C15_OnlyReadyEnqueued ==
    /\ [](\A i \in 1..Len(heap) : objs[heap[i]].dependencies = {})
    /\ [][\A e \in Range(task_dict) :
            (/\ objs[e.ref].dependencies # {}
             /\ e.key \in Keys(task_dict')
             /\ Get(task_dict', e.key) \in Range(heap'))
            => \E name \in Names :
                    objs[e.ref].dependencies = {name} /\ complete_task(name)]_vars

\* a task was just created with dependencies and is not among the heap's entries
C15_Witness ==
    /\ last = "add_task: added"
    /\ heap # <<>>
    /\ objs[task_dict[Len(task_dict)].ref].dependencies # {}
    /\ task_dict[Len(task_dict)].ref \notin Range(heap)

\* C16 (readiness tracks prerequisites): for every active task, the dependency
\* set is empty exactly when every prerequisite is in completed.  The current
\* dependency set is what is left of the prerequisites the task was created
\* with, each one removed being in completed (complete_task), so the
\* prerequisites are all completed exactly when the remaining ones are.
C16_ReadinessTracksPrerequisites ==
    \A r \in ActiveRefs :
        objs[r].dependencies = {} <=> objs[r].dependencies \subseteq completed

\* C17 (display operations): show_pending_tasks leaves the heap, task_dict,
\* the objects, completed and the file as they were; get_next_task leaves
\* task_dict, the active objects, completed and the file as they were, adds no
\* heap entry and keeps every heap entry whose name is a key of task_dict.
C17_DisplayFrame ==
    [][/\ (last' = "show_pending_tasks" /\ show_pending_tasks)
            => UNCHANGED <<heap, task_dict, completed, objs, file>>
       /\ (last' \in GetNextOutcomes /\ get_next_task) =>
            /\ UNCHANGED <<task_dict, completed, file>>
            /\ Items(task_dict', objs') = Items(task_dict, objs)
            /\ \A v \in Range(objs) :
                /\ Count(heap', objs', v) <= Count(heap, objs, v)
                /\ v.name \in Keys(task_dict)
                    => Count(heap', objs', v) = Count(heap, objs, v)
            /\ \A v \in Range(objs') : v \in Range(objs)]_vars

\* show_pending_tasks has listed the live entries of a heap that also holds a
\* stale one
C17_Witness ==
    /\ last = "show_pending_tasks"
    /\ printed # <<>>
    /\ Len(heap) > Len(printed)

\* C18 (completion is one-way): no step of add_task, complete_task,
\* get_next_task, show_pending_tasks or a restart on the file the manager
\* keeps removes a name from completed.
C18_CompletionOneWay == [][completed \subseteq completed']_vars

\* a restart has loaded two completed names and an active task
C18_Witness ==
    /\ last = "restart"
    /\ Cardinality(completed) = 2
    /\ task_dict # <<>>

\* C19 (no duplicate listing): no two entries of the heap bear the same name
\* when that name is a key of task_dict, and show_pending_tasks prints no name
\* twice.
C19_NoDuplicateListing ==
    /\ \A i, j \in 1..Len(heap) :
        (i # j /\ objs[heap[i]].name \in Keys(task_dict))
            => objs[heap[i]].name # objs[heap[j]].name
    /\ last = "show_pending_tasks" =>
        \A i, j \in 1..Len(printed) :
            i # j => objs[printed[i]].name # objs[printed[j]].name

\* C20 (list/next consistency): in every state get_next_task would return None
\* exactly when show_pending_tasks would list nothing; otherwise the task it
\* would return is listed and no listed task is smaller under Task.__lt__.
\* What the two operations did return and list is what they would.
C20_ListNextConsistency ==
    LET h1 == purge(heap, task_dict, objs)
        listed == sorted(pending(heap, task_dict, objs), objs)
    IN  /\ (h1 = <<>>) <=> (listed = <<>>)
        /\ h1 # <<>> =>
            /\ h1[1] \in Range(listed)
            /\ \A r \in Range(listed) : ~Lt(objs[r], objs[h1[1]])
        /\ last \in GetNextOutcomes => ret = (IF h1 = <<>> THEN <<>> ELSE <<h1[1]>>)
        /\ last = "show_pending_tasks" => printed = listed

\* get_next_task has returned the smaller of two listed tasks
C20_Witness ==
    /\ last = "get_next_task: task"
    /\ Len(pending(heap, task_dict, objs)) >= 2
    /\ \E r \in Range(heap) : Lt(objs[ret[1]], objs[r])

====
